---- MODULE Spec2Model ----
(***************************************************************************)
(* Model of window/themes/window_theme_editor_box.cpp (Telegram Desktop):  *)
(*   - the theme archive routines PrepareTheme / ParseTheme,               *)
(*   - the slug check IsGoodSlug,                                          *)
(*   - the save state machine SavePreparedTheme driven by SaveThemeBox,    *)
(*     together with the collaborators it talks to (the API sender, the    *)
(*     crl thread pool / main queue and the media uploader).               *)
(***************************************************************************)
EXTENDS Integers, Sequences, FiniteSets, TLC

(***************************************************************************)
(* Byte arrays.  A QByteArray is either plain bytes or the bytes of a zip  *)
(* archive; an archive is kept as the list of its entries instead of the   *)
(* deflated stream.  QByteArray() is the empty plain array.                *)
(***************************************************************************)
QBA(b) == [isZip |-> FALSE, bytes |-> b, entries |-> <<>>]

QByteArrayEmpty == QBA(<<>>)

isEmpty(a) == ~a.isZip /\ a.bytes = <<>>

\* Bounds of the byte strings drawn as palettes and background contents.
MaxBytesLen == 2

ByteValues == {1, 2}

ByteStrings == UNION {[1..n -> ByteValues] : n \in 0..MaxBytesLen}

(***************************************************************************)
(* zlib::FileToWrite as PrepareTheme uses it.  Every operation is skipped  *)
(* once an error is recorded; `fails` says that minizip reports an error   *)
(* for this very call.                                                     *)
(***************************************************************************)
FileToWrite == [error |-> "ZIP_OK", entries |-> <<>>, current |-> <<>>]

openNewFile(zip, name, zfi, fails) ==
    IF zip.error # "ZIP_OK" THEN zip
    ELSE IF fails THEN [zip EXCEPT !.error = "ZIP_ERRNO"]
    ELSE [zip EXCEPT !.current =
              <<[name |-> name, time |-> zfi, content |-> QByteArrayEmpty]>>]

writeInFile(zip, data, fails) ==
    IF zip.error # "ZIP_OK" THEN zip
    ELSE IF fails THEN [zip EXCEPT !.error = "ZIP_ERRNO"]
    ELSE [zip EXCEPT !.current = <<[zip.current[1] EXCEPT !.content = data]>>]

closeFile(zip, fails) ==
    IF zip.error # "ZIP_OK" THEN zip
    ELSE IF fails THEN [zip EXCEPT !.error = "ZIP_ERRNO"]
    ELSE [zip EXCEPT !.entries = zip.entries \o zip.current, !.current = <<>>]

close(zip, fails) ==
    IF zip.error # "ZIP_OK" THEN zip
    ELSE IF fails THEN [zip EXCEPT !.error = "ZIP_ERRNO"]
    ELSE zip

zipResult(zip) == [isZip |-> TRUE, bytes |-> <<>>, entries |-> zip.entries]

\* Number of zip operations PrepareTheme performs; zipFail = 0 means that
\* none of them fails, zipFail = i that the i-th one reports an error.
ZipOps == 7

\* zip_fileinfo zfi = { { 0, 0, 0, 0, 0, 0 }, 0, 0, 0 }
zfi == <<0, 0, 0, 0, 0, 0, 0, 0, 0>>

\* Fault variant of BackName: the two base names exchanged.
BackName_swapTile(background) ==
    (IF background.tile THEN "background" ELSE "tiled")
        \o (IF background.isPng THEN ".png" ELSE ".jpg")

BackName(background) ==
    (IF background.tile THEN "tiled" ELSE "background")
        \o (IF background.isPng THEN ".png" ELSE ".jpg")

PrepareTheme(palette, background, zipFail) ==
    LET back == BackName(background)
        z1 == openNewFile(FileToWrite, back, zfi, zipFail = 1)
        z2 == writeInFile(z1, background.content, zipFail = 2)
        z3 == closeFile(z2, zipFail = 3)
        scheme == "colors.tdesktop-theme"
        z4 == openNewFile(z3, scheme, zfi, zipFail = 4)
        z5 == writeInFile(z4, palette, zipFail = 5)
        z6 == closeFile(z5, zipFail = 6)
        z7 == close(z6, zipFail = 7)
    IN  IF z7.error # "ZIP_OK" THEN QByteArrayEmpty ELSE zipResult(z7)

(***************************************************************************)
(* zlib::FileToRead as ParseTheme uses it.  The names compared are all     *)
(* lower-case literals, so the case-insensitive lookup is name equality.   *)
(***************************************************************************)
FileToRead(content) ==
    [entries |-> content.entries,
     error |-> IF content.isZip THEN "UNZ_OK" ELSE "UNZ_BADZIPFILE"]

\* file.readFileContent(name, ...): <<file after the call, bytes returned>>
readFileContent(file, name) ==
    IF file.error # "UNZ_OK" THEN <<file, QByteArrayEmpty>>
    ELSE LET found == {i \in 1..Len(file.entries) : file.entries[i].name = name}
         IN  IF found = {}
             THEN <<[file EXCEPT !.error = "UNZ_END_OF_LIST_OF_FILE"],
                    QByteArrayEmpty>>
             ELSE <<file,
                    file.entries[CHOOSE i \in found :
                                    \A j \in found : i <= j].content>>

clearError(file) == [file EXCEPT !.error = "UNZ_OK"]

ParsedTheme ==
    [palette |-> QByteArrayEmpty, background |-> QByteArrayEmpty,
     isPng |-> FALSE, tiled |-> FALSE]

\* The lambda fromFile of ParseTheme:
\* <<file after the call, background read, value returned>>
fromFile(file, filename) ==
    LET r == readFileContent(file, filename)
    IN  IF r[1].error = "UNZ_OK" THEN <<r[1], r[2], TRUE>>
        ELSE IF r[1].error = "UNZ_END_OF_LIST_OF_FILE"
        THEN <<clearError(r[1]), r[2], TRUE>>
        ELSE <<r[1], r[2], FALSE>>

\* if (!fromFile(..) || !result.background.isEmpty()) return ...
fromFileReturns(f) == ~f[3] \/ ~isEmpty(f[2])

fromFileResult(result, f) ==
    IF isEmpty(f[2]) THEN ParsedTheme ELSE [result EXCEPT !.background = f[2]]

\* The name the last lookup of ParseTheme asks for.
FourthBackgroundName == "background.jpg"

ParseTheme(themeContent, onlyPalette) ==
    LET result0 == [ParsedTheme EXCEPT !.palette = themeContent]
        file0 == FileToRead(themeContent)
        p1 == readFileContent(file0, "colors.tdesktop-theme")
        p2 == IF p1[1].error = "UNZ_END_OF_LIST_OF_FILE"
              THEN readFileContent(clearError(p1[1]), "colors.tdesktop-palette")
              ELSE p1
        result1 == [result0 EXCEPT !.palette = p2[2]]
        b1 == fromFile(p2[1], "background.jpg")
        result2 == [result1 EXCEPT !.isPng = TRUE]
        b2 == fromFile(b1[1], "background.png")
        result3 == [result2 EXCEPT !.tiled = TRUE]
        b3 == fromFile(b2[1], "tiled.png")
        result4 == [result3 EXCEPT !.isPng = FALSE]
        b4 == fromFile(b3[1], FourthBackgroundName)
    IN  IF file0.error # "UNZ_OK" THEN result0
        ELSE IF p2[1].error # "UNZ_OK" THEN ParsedTheme
        ELSE IF onlyPalette THEN result1
        ELSE IF fromFileReturns(b1) THEN fromFileResult(result1, b1)
        ELSE IF fromFileReturns(b2) THEN fromFileResult(result2, b2)
        ELSE IF fromFileReturns(b3) THEN fromFileResult(result3, b3)
        ELSE IF fromFileReturns(b4) THEN fromFileResult(result4, b4)
        ELSE [result4 EXCEPT !.background = b4[2]]

(***************************************************************************)
(* State of the archive round trip: one PrepareTheme call on drawn inputs, *)
(* followed by one ParseTheme call on its result.                          *)
(***************************************************************************)
VARIABLES
    thPalette,      \* const QByteArray &palette
    thBackground,   \* const PreparedBackground &background
    thZipFail,      \* which zip operation fails (0: none)
    thContent,      \* the bytes PrepareTheme returned
    thParsed,       \* the ParsedTheme read back
    thStep          \* "input", "prepared", "parsed"

themeVars == <<thPalette, thBackground, thZipFail, thContent, thParsed, thStep>>

ThemeIdle ==
    /\ thPalette = QByteArrayEmpty
    /\ thBackground = [content |-> QByteArrayEmpty, tile |-> FALSE,
                       isPng |-> FALSE, changed |-> FALSE]
    /\ thZipFail = 0
    /\ thContent = QByteArrayEmpty
    /\ thParsed = [parsed |-> ParsedTheme, onlyPalette |-> FALSE]
    /\ thStep = "idle"


(***************************************************************************)
(* IsGoodSlug.  A QString is a sequence of character codes.                *)
(***************************************************************************)
kMinSlugSize == 5

kMaxSlugSize == 64

Ord == [A |-> 65, Z |-> 90, a |-> 97, z |-> 122, d0 |-> 48, d9 |-> 57,
        underscore |-> 95]

\* The predicate of ranges::find_if: ch is not allowed in a slug.
IsBadSlugChar(ch) ==
    /\ (ch < Ord.A \/ ch > Ord.Z)
    /\ (ch < Ord.a \/ ch > Ord.z)
    /\ (ch < Ord.d0 \/ ch > Ord.d9)
    /\ (ch # Ord.underscore)

\* Fault variant of IsGoodSlug: the lower length limit off by one.
IsGoodSlug_offByOne(slug) ==
    IF Len(slug) <= kMinSlugSize \/ Len(slug) > kMaxSlugSize THEN FALSE
    ELSE \A i \in 1..Len(slug) : ~IsBadSlugChar(slug[i])

IsGoodSlug(slug) ==
    IF Len(slug) < kMinSlugSize \/ Len(slug) > kMaxSlugSize THEN FALSE
    ELSE \A i \in 1..Len(slug) : ~IsBadSlugChar(slug[i])

(***************************************************************************)
(* Inputs of the save box.                                                 *)
(***************************************************************************)
\* session->userId()
userId == 1

\* How many times SavePreparedTheme is called (Save presses that pass the
\* saving flag) in one life of the box.
MaxAttempts == 2

Repeat(ch, n) == [i \in 1..n |-> ch]

\* Texts of the link field: both ends of the two length limits, every
\* character class, and the characters right outside each class.
GoodSlugs ==
    { <<Ord.a, Ord.Z, Ord.d0, Ord.underscore, Ord.d9>>,
      Repeat(Ord.A, kMaxSlugSize) }

BadSlugs ==
    { <<>>,
      Repeat(Ord.z, kMinSlugSize - 1),
      Repeat(Ord.a, kMaxSlugSize + 1) }
    \cup { <<Ord.a, Ord.a, Ord.a, Ord.a, ch>> :
              ch \in {Ord.A - 1, Ord.Z + 1, Ord.a - 1, Ord.z + 1,
                      Ord.d0 - 1, Ord.d9 + 1} }

Slugs == GoodSlugs \cup BadSlugs

\* Data::CloudTheme, the fields this file reads.
CloudTheme == [id |-> 0, createdBy |-> 0, documentId |-> 0,
               title |-> "", slug |-> <<>>]

Clouds ==
    { [CloudTheme EXCEPT !.id = i, !.createdBy = c,
                         !.documentId = IF i = 0 THEN 0 ELSE 9,
                         !.title = IF i = 0 THEN "" ELSE "Theme"] :
          i \in {0, 7}, c \in {userId, userId + 1} }

\* const QByteArray &palette of SaveThemeBox
BoxPalette == QBA(<<2>>)

\* back->result(): the background chosen in the box when Save is pressed
BoxBackgrounds ==
    { [content |-> QBA(<<1>>), tile |-> TRUE, isPng |-> FALSE, changed |-> FALSE] }

\* name->getLastText().trimmed() and link->getLastText().trimmed() when Save
\* is pressed: every link text with a title, and an empty title with a good
\* and with a bad link text.
BoxTexts ==
    { <<"Theme", slug>> : slug \in Slugs }
        \cup { <<"", Repeat(Ord.A, kMaxSlugSize)>>,
               <<"", Repeat(Ord.z, kMinSlugSize - 1)>> }

\* RPCError::type() values the server may answer with
ErrorTypes == {"THEME_FILE_INVALID", "THEME_TITLE_INVALID",
               "THEME_SLUG_INVALID", "THEME_SLUG_OCCUPIED", "FLOOD_WAIT"}

\* An upload of another part of the application, in flight in the uploader.
ForeignUpload == [id |-> 0, content |-> QByteArrayEmpty]

(***************************************************************************)
(* State of SaveThemeBox, of the SavePreparedTheme calls it makes and of   *)
(* the collaborators.                                                      *)
(***************************************************************************)
VARIABLES
    cloud,              \* const Data::CloudTheme &cloud of SaveThemeBox
    saving,             \* *saving
    loading,            \* box->showLoading(..)
    cancel,             \* *cancel: 0 is nullptr, k the cancel function of call k
    boxState,           \* "shown", "closing" (closeBox called), "destroyed"
    boxFails,           \* what each run of the box's fail handler did
    saves,              \* one record per SavePreparedTheme call: its State,
                        \* its captured arguments and what it has done so far
    requests,           \* API requests sent and not yet answered or cancelled
    nextRequestId,      \* the id api->request(..).send() returns next
    nextLocalMessageId, \* session->data().nextLocalMessageId()
    asyncQueue,         \* crl::async tasks not yet run
    mainQueue,          \* crl::on_main callbacks not yet run
    uploads             \* uploads in flight in session->uploader()

boxVars == <<cloud, saving, loading, cancel, boxState, boxFails>>

envVars == <<requests, nextRequestId, nextLocalMessageId, asyncQueue,
             mainQueue, uploads>>

saveVars == <<boxVars, saves, envVars>>

(***************************************************************************)
(* State of one SaveTheme call.                                            *)
(***************************************************************************)
VARIABLES
    stCloud,        \* const Data::CloudTheme &cloud of SaveTheme
    stRequest,      \* whether the account.getTheme request is pending
    stLog,          \* the calls of unlock() and window->show(Box(..)), in order
    stFields,       \* the fields each SaveThemeBox shown was given
    stResponse,     \* what the account.getTheme request was answered with
    stCalled        \* whether SaveTheme was called

stVars == <<stCloud, stRequest, stLog, stFields, stResponse, stCalled>>

SaveThemeIdle ==
    /\ stCalled = FALSE
    /\ stCloud = CloudTheme
    /\ stRequest = FALSE
    /\ stLog = <<>>
    /\ stFields = <<>>
    /\ stResponse = <<>>

(***************************************************************************)
(* State of one GenerateSlug call.                                         *)
(***************************************************************************)
VARIABLES
    gsRandom,       \* the values rand_value<uint8>() returns, call by call
    gsI,            \* the loop counter i
    gsResult        \* result

gsVars == <<gsRandom, gsI, gsResult>>

SlugIdle ==
    /\ gsRandom = <<>>
    /\ gsI = 0
    /\ gsResult = <<>>

\* The variables of the routines modelled apart from the save box.
pureVars == <<themeVars, stVars, gsVars>>

vars == <<saveVars, pureVars>>

\* const auto creating = !fields.id || (fields.createdBy != session->userId());
\* Fault variant of Creating: the creator is not compared.
Creating_onlyNoId(fields) == fields.id = 0

Creating(fields) == fields.id = 0 \/ fields.createdBy # userId

\* struct State, the captured arguments, and the record of what the call did.
NewState(fields, background) ==
    [fields |-> fields, background |-> background,
     creating |-> Creating(fields),
     started |-> FALSE,         \* passed the title and slug checks
     id |-> 0, generating |-> FALSE, requestId |-> 0,
     themeContent |-> QByteArrayEmpty, filename |-> "", subscribed |-> FALSE,
     sent |-> <<>>,             \* kinds of the API requests sent, in order
     succeeded |-> <<>>,        \* kinds of the API requests that succeeded
     failed |-> <<>>,           \* <<kind, error type>> of those that failed
     cancelFn |-> "function",   \* what the call returned: "nullptr" or "function"
     asyncs |-> 0,              \* crl::async calls
     delivered |-> FALSE,       \* generated bytes accepted on the main thread
     uploaded |-> <<>>,         \* contents handed to uploadMedia
     readyReported |-> FALSE,   \* uploader reported documentReady for id
     dones |-> 0,               \* calls of done
     fails |-> <<>>,            \* arguments of the calls of fail
     cancelled |-> FALSE,       \* the returned function was invoked
     finishLog |-> <<>>,        \* what finish did, in order
     preview |-> <<>>,          \* whether PreviewFromFile built a preview
     cached |-> <<>>,           \* bytes given to setDataAndCache
     applied |-> <<>>]          \* bytes of the preview given to Apply


(***************************************************************************)
(* The handlers of SaveThemeBox.                                           *)
(***************************************************************************)
\* The field the fail handler calls showError() on.
\* Fault variant of FailShowError: the title and slug errors exchanged.
FailShowError_swapped(type, error) ==
    LET t == IF error = "THEME_TITLE_INVALID" THEN "Link"
             ELSE IF error = "THEME_SLUG_INVALID" THEN "Name"
             ELSE IF error = "THEME_SLUG_OCCUPIED" THEN "Link"
             ELSE type
    IN  IF t = "Name" THEN "name" ELSE IF t = "Link" THEN "link" ELSE "none"

FailShowError(type, error) ==
    LET t == IF error = "THEME_TITLE_INVALID" THEN "Name"
             ELSE IF error = "THEME_SLUG_INVALID" THEN "Link"
             ELSE IF error = "THEME_SLUG_OCCUPIED" THEN "Link"
             ELSE type
    IN  IF t = "Name" THEN "name" ELSE IF t = "Link" THEN "link" ELSE "none"

\* The texts the fail handler gives to Ui::Toast::Show.
FailToast(error) ==
    IF error = "THEME_TITLE_INVALID" THEN <<>>
    ELSE IF error = "THEME_SLUG_INVALID" THEN <<>>
    ELSE IF error = "THEME_SLUG_OCCUPIED"
    THEN <<"lng_create_channel_link_occupied">>
    ELSE <<error>>

\* const auto fail = crl::guard(box, [=](SaveErrorType type, const QString &error) {..})
BoxFail(type, error) ==
    IF boxState = "destroyed"
    THEN UNCHANGED <<saving, loading, boxFails>>
    ELSE /\ saving' = FALSE
         /\ loading' = FALSE
         /\ boxFails' = Append(boxFails,
                [type |-> type, error |-> error,
                 showError |-> FailShowError(type, error),
                 toast |-> FailToast(error)])

\* const auto done = crl::guard(box, [=] { box->closeBox(); ... })
BoxDone ==
    boxState' = IF boxState = "destroyed" THEN "destroyed" ELSE "closing"

(***************************************************************************)
(* The lambdas of SavePreparedTheme, as updates of the call's record.      *)
(***************************************************************************)
CallFail(st, type, error) ==
    [st EXCEPT !.fails = Append(@, <<type, error>>)]

\* fail(..); return nullptr;
FailAndReturnNull(st, type) ==
    [CallFail(st, type, "") EXCEPT !.cancelFn = "nullptr"]

\* The .fail handler of an API request got `error` for request `r`.
RequestFailed(st, r, error) ==
    [st EXCEPT !.failed = Append(@, <<r.kind, error>>)]

\* The .done handler of an API request runs for request `r`.
RequestSucceeded(st, r) ==
    [st EXCEPT !.succeeded = Append(@, r.kind)]

Request(k, kind) == [id |-> nextRequestId, attempt |-> k, kind |-> kind]

\* state->requestId = api->request(..).done(..).fail(..).send()
SendRequest(st, kind) ==
    [st EXCEPT !.requestId = nextRequestId, !.sent = Append(@, kind)]

\* save(): state->generating = true; crl::async(..)
save(st) == [st EXCEPT !.generating = TRUE, !.asyncs = @ + 1]

AsyncTask(k, st) == [attempt |-> k, n |-> st.asyncs + 1]

\* uploadFile(theme), up to uploadMedia
\* Fault variant of uploadFile: state->themeContent is not set.
uploadFile_noStore(st, theme) ==
    [st EXCEPT !.filename = st.fields.title \o ".tdesktop-theme",
               !.subscribed = TRUE,
               !.uploaded = Append(@, theme)]

uploadFile(st, theme) ==
    [st EXCEPT !.filename = st.fields.title \o ".tdesktop-theme",
               !.themeContent = theme,
               !.subscribed = TRUE,
               !.uploaded = Append(@, theme)]

\* rpl::filter([=](const UploadedDocument &data) { return data.fullId == state->id; })
\* Fault variant of DocumentReadyFilter: every upload is let through.
DocumentReadyFilter_all(data, st) == TRUE

DocumentReadyFilter(data, st) == data.id = st.id

\* The function SavePreparedTheme returns.
\* Fault variant of CancelState: state->generating is left as it is.
CancelState_keepGenerating(st) ==
    [st EXCEPT !.requestId = 0, !.subscribed = FALSE, !.cancelled = TRUE]

CancelState(st) ==
    [st EXCEPT !.generating = FALSE, !.requestId = 0, !.subscribed = FALSE,
               !.cancelled = TRUE]

\* api->request(base::take(state->requestId)).cancel()
CancelRequests(st) == {r \in requests : r.id # st.requestId}

\* session->uploader().cancel(state->id)
CancelUploads(st) == {u \in uploads : u.id # st.id}

\* The server's answers to account.createTheme / account.updateTheme.
ThemeResults ==
    {[type |-> "theme", documentId |-> d] : d \in {0, 5}}
        \cup {[type |-> "themeDocumentNotModified", documentId |-> 0]}

\* finish(result); preview says whether PreviewFromFile builds a preview.
finish(st, result, preview) ==
    LET documentId == IF result.type = "theme" THEN result.documentId
                      ELSE st.fields.documentId
    IN  [st EXCEPT
            !.dones = @ + 1,
            !.finishLog =
                <<"clearEditingTheme", "done">>
                \o (IF result.type = "theme" THEN <<"cloudThemes.apply">> ELSE <<>>)
                \o (IF documentId # 0 THEN <<"setDataAndCache">> ELSE <<>>)
                \o <<"PreviewFromFile">>
                \o (IF preview THEN <<"Apply", "KeepApplied">> ELSE <<>>),
            !.preview = <<preview>>,
            !.cached = IF documentId # 0 THEN <<st.themeContent>> ELSE <<>>,
            !.applied = IF preview THEN <<st.themeContent>> ELSE <<>>]

\* Fault variant of checkFieldsFailed: fail(..) is called on both branches.
checkFieldsFailed_noElse(st, error) ==
    IF error = "THEME_FILE_INVALID"
    THEN CallFail(save(st), "Other", error)
    ELSE CallFail(st, "Other", error)

\* checkFields: .fail([=](const RPCError &error) {
\*     if (error.type() == qstr("THEME_FILE_INVALID")) save(); else fail(..) })
checkFieldsFailed(st, error) ==
    IF error = "THEME_FILE_INVALID"
    THEN save(st)
    ELSE CallFail(st, "Other", error)

\* if (creating) checkFields(); else save();
\* Fault variant of StartsWithCheck: the field check is skipped.
StartsWithCheck_never(st) == FALSE

StartsWithCheck(st) == st.creating

(***************************************************************************)
(* Actions.                                                                *)
(***************************************************************************)
Init ==
    /\ cloud \in Clouds
    /\ saving = FALSE
    /\ loading = FALSE
    /\ cancel = 0
    /\ boxState = "shown"
    /\ boxFails = <<>>
    /\ saves = <<>>
    /\ requests = {}
    /\ nextRequestId = 1
    /\ nextLocalMessageId = 1
    /\ asyncQueue = {}
    /\ mainQueue = {}
    /\ uploads = {ForeignUpload}
    /\ ThemeIdle
    /\ SaveThemeIdle
    /\ SlugIdle

\* Fault variant of SaveIgnored: the saving flag is not looked at.
SaveIgnored_never == FALSE

\* if (*saving) { return; }
SaveIgnored == saving

\* The Save button: the lambda save of SaveThemeBox, with the call of
\* SavePreparedTheme it makes.
PressSave ==
    /\ boxState = "shown"
    /\ \E texts \in BoxTexts, background \in BoxBackgrounds :
        IF SaveIgnored THEN UNCHANGED vars
        ELSE
          /\ Len(saves) < MaxAttempts
          /\ LET fields == [cloud EXCEPT !.title = texts[1], !.slug = texts[2]]
                 k == Len(saves) + 1
                 st0 == NewState(fields, background)
                 st1 == [st0 EXCEPT !.started = TRUE, !.id = nextLocalMessageId]
             IN  IF fields.title = ""
                 THEN /\ saves' = Append(saves, FailAndReturnNull(st0, "Name"))
                      /\ BoxFail("Name", "")
                      /\ cancel' = 0
                      /\ UNCHANGED envVars
                 ELSE IF ~IsGoodSlug(fields.slug)
                 THEN /\ saves' = Append(saves, FailAndReturnNull(st0, "Link"))
                      /\ BoxFail("Link", "")
                      /\ cancel' = 0
                      /\ UNCHANGED envVars
                 ELSE /\ nextLocalMessageId' = nextLocalMessageId + 1
                      /\ IF StartsWithCheck(st1)
                         THEN /\ saves' = Append(saves,
                                     SendRequest(st1, "createThemeCheck"))
                              /\ requests' = requests
                                     \cup {Request(k, "createThemeCheck")}
                              /\ nextRequestId' = nextRequestId + 1
                              /\ UNCHANGED asyncQueue
                         ELSE /\ saves' = Append(saves, save(st1))
                              /\ asyncQueue' = asyncQueue \cup {AsyncTask(k, st1)}
                              /\ UNCHANGED <<requests, nextRequestId>>
                      /\ saving' = TRUE
                      /\ loading' = TRUE
                      /\ cancel' = k
                      /\ UNCHANGED <<boxFails, mainQueue, uploads>>
          /\ UNCHANGED <<cloud, boxState, pureVars>>

\* The Cancel button: box->closeBox()
CloseBox ==
    /\ boxState = "shown"
    /\ boxState' = "closing"
    /\ UNCHANGED <<cloud, saving, loading, cancel, boxFails, saves, envVars,
                   pureVars>>

\* The box is destroyed: box->lifetime() runs if (*cancel) (*cancel)()
DestroyBox ==
    /\ boxState = "closing"
    /\ boxState' = "destroyed"
    /\ IF cancel = 0
       THEN UNCHANGED <<saves, requests, uploads>>
       ELSE /\ saves' = [saves EXCEPT ![cancel] = CancelState(@)]
            /\ requests' = CancelRequests(saves[cancel])
            /\ uploads' = CancelUploads(saves[cancel])
    /\ UNCHANGED <<cloud, saving, loading, cancel, boxFails, nextRequestId,
                   nextLocalMessageId, asyncQueue, mainQueue, pureVars>>

\* checkFields: .done([=](const MTPTheme &result) { save(); })
CheckFieldsDone ==
    \E r \in requests :
        /\ r.kind = "createThemeCheck"
        /\ requests' = requests \ {r}
        /\ saves' = [saves EXCEPT ![r.attempt] = save(RequestSucceeded(@, r))]
        /\ asyncQueue' = asyncQueue \cup {AsyncTask(r.attempt, saves[r.attempt])}
        /\ UNCHANGED <<boxVars, nextRequestId, nextLocalMessageId, mainQueue,
                       uploads, pureVars>>

\* The .fail handler of checkFields runs; what it started is taken from
\* what checkFieldsFailed did to the call's record.
CheckFieldsFail ==
    \E r \in requests, error \in ErrorTypes :
        /\ r.kind = "createThemeCheck"
        /\ requests' = requests \ {r}
        /\ LET old == RequestFailed(saves[r.attempt], r, error)
               new == checkFieldsFailed(old, error)
           IN  /\ saves' = [saves EXCEPT ![r.attempt] = new]
               /\ asyncQueue' = IF new.asyncs > old.asyncs
                                THEN asyncQueue \cup {AsyncTask(r.attempt, old)}
                                ELSE asyncQueue
               /\ IF Len(new.fails) > Len(old.fails)
                  THEN BoxFail("Other", error)
                  ELSE UNCHANGED <<saving, loading, boxFails>>
        /\ UNCHANGED <<cloud, cancel, boxState, nextRequestId,
                       nextLocalMessageId, mainQueue, uploads, pureVars>>

\* crl::async([=] { crl::on_main([=, ready = PrepareTheme(palette, background)] {..}) })
\* runs on the thread pool: the bytes are generated and the callback queued.
AsyncGenerate ==
    \E task \in asyncQueue, zipFail \in 0..ZipOps :
        /\ asyncQueue' = asyncQueue \ {task}
        /\ mainQueue' = mainQueue \cup
              {[attempt |-> task.attempt, n |-> task.n,
                ready |-> PrepareTheme(BoxPalette,
                                       saves[task.attempt].background, zipFail)]}
        /\ UNCHANGED <<boxVars, saves, requests, nextRequestId,
                       nextLocalMessageId, uploads, pureVars>>

\* The crl::on_main callback of save(), with the uploadFile(ready) it calls.
OnMainReady ==
    \E cb \in mainQueue :
        /\ mainQueue' = mainQueue \ {cb}
        /\ IF ~saves[cb.attempt].generating
           THEN UNCHANGED <<saves, uploads>>
           ELSE /\ saves' = [saves EXCEPT ![cb.attempt] =
                        uploadFile([@ EXCEPT !.generating = FALSE,
                                             !.delivered = TRUE], cb.ready)]
                /\ uploads' = uploads \cup
                        {[id |-> saves[cb.attempt].id, content |-> cb.ready]}
        /\ UNCHANGED <<boxVars, requests, nextRequestId, nextLocalMessageId,
                       asyncQueue, pureVars>>

\* The subscribers of documentReady() that let the event data through.
Receivers(data) ==
    {k \in 1..Len(saves) :
        saves[k].subscribed /\ DocumentReadyFilter(data, saves[k])}

Rank(k, S) == Cardinality({j \in S : j < k})

\* The uploader finishes an upload and fires documentReady(); every
\* subscription of uploadFile filters the event and calls uploadTheme(data).
DocumentReady ==
    \E data \in uploads :
        LET R == Receivers(data)
        IN  /\ uploads' = uploads \ {data}
            /\ saves' = [k \in 1..Len(saves) |->
                    LET st == IF saves[k].id = data.id
                              THEN [saves[k] EXCEPT !.readyReported = TRUE]
                              ELSE saves[k]
                    IN  IF k \in R
                        THEN [st EXCEPT !.requestId = nextRequestId + Rank(k, R),
                                        !.sent = Append(@, "uploadTheme")]
                        ELSE st]
            /\ requests' = requests \cup
                    {[id |-> nextRequestId + Rank(k, R), attempt |-> k,
                      kind |-> "uploadTheme"] : k \in R}
            /\ nextRequestId' = nextRequestId + Cardinality(R)
            /\ UNCHANGED <<boxVars, nextLocalMessageId, asyncQueue, mainQueue,
                           pureVars>>

\* The uploader gives up an upload (documentFailed(), which nothing here
\* subscribes to).
UploadFailed ==
    \E data \in uploads :
        /\ uploads' = uploads \ {data}
        /\ UNCHANGED <<boxVars, saves, requests, nextRequestId,
                       nextLocalMessageId, asyncQueue, mainQueue, pureVars>>

\* uploadTheme: .done([=](const MTPDocument &result) {..}), with the
\* createTheme(result) or updateTheme(result) it calls.
UploadThemeDone ==
    \E r \in requests :
        /\ r.kind = "uploadTheme"
        /\ LET kind == IF saves[r.attempt].creating
                       THEN "createTheme" ELSE "updateTheme"
           IN  /\ saves' = [saves EXCEPT ![r.attempt] =
                        SendRequest(RequestSucceeded(@, r), kind)]
               /\ requests' = (requests \ {r}) \cup {Request(r.attempt, kind)}
        /\ nextRequestId' = nextRequestId + 1
        /\ UNCHANGED <<boxVars, nextLocalMessageId, asyncQueue, mainQueue,
                       uploads, pureVars>>

\* The .fail handlers of uploadTheme, createTheme and updateTheme.
RequestFail ==
    \E r \in requests, error \in ErrorTypes :
        /\ r.kind \in {"uploadTheme", "createTheme", "updateTheme"}
        /\ requests' = requests \ {r}
        /\ saves' = [saves EXCEPT ![r.attempt] =
                        CallFail(RequestFailed(@, r, error), "Other", error)]
        /\ BoxFail("Other", error)
        /\ UNCHANGED <<cloud, cancel, boxState, nextRequestId,
                       nextLocalMessageId, asyncQueue, mainQueue, uploads,
                       pureVars>>

\* The .done handlers of createTheme and updateTheme: finish(result).
RecordDone ==
    \E r \in requests, result \in ThemeResults, preview \in BOOLEAN :
        /\ r.kind \in {"createTheme", "updateTheme"}
        /\ requests' = requests \ {r}
        /\ saves' = [saves EXCEPT ![r.attempt] =
                        finish(RequestSucceeded(@, r), result, preview)]
        /\ BoxDone
        /\ UNCHANGED <<cloud, saving, loading, cancel, boxFails, nextRequestId,
                       nextLocalMessageId, asyncQueue, mainQueue, uploads,
                       pureVars>>

Next ==
    \/ PressSave
    \/ CloseBox
    \/ DestroyBox
    \/ CheckFieldsDone
    \/ CheckFieldsFail
    \/ AsyncGenerate
    \/ OnMainReady
    \/ DocumentReady
    \/ UploadFailed
    \/ UploadThemeDone
    \/ RequestFail
    \/ RecordDone

Spec == Init /\ [][Next]_vars

(***************************************************************************)
(* The archive round trip: one PrepareTheme call on drawn inputs, followed *)
(* by one ParseTheme call on its result.                                   *)
(***************************************************************************)
SaveIdle ==
    /\ cloud = CloudTheme
    /\ saving = FALSE
    /\ loading = FALSE
    /\ cancel = 0
    /\ boxState = "destroyed"
    /\ boxFails = <<>>
    /\ saves = <<>>
    /\ requests = {}
    /\ nextRequestId = 1
    /\ nextLocalMessageId = 1
    /\ asyncQueue = {}
    /\ mainQueue = {}
    /\ uploads = {}

PreparedBackgrounds ==
    [content : {QBA(b) : b \in ByteStrings}, tile : BOOLEAN,
     isPng : BOOLEAN, changed : {FALSE}]

ThemeInit ==
    /\ thPalette \in {QBA(b) : b \in ByteStrings}
    /\ thBackground \in PreparedBackgrounds
    /\ thZipFail \in 0..ZipOps
    /\ thContent = QByteArrayEmpty
    /\ thParsed = [parsed |-> ParsedTheme, onlyPalette |-> FALSE]
    /\ thStep = "input"
    /\ SaveIdle
    /\ SaveThemeIdle
    /\ SlugIdle

CallPrepareTheme ==
    /\ thStep = "input"
    /\ thContent' = PrepareTheme(thPalette, thBackground, thZipFail)
    /\ thStep' = "prepared"
    /\ UNCHANGED <<thPalette, thBackground, thZipFail, thParsed>>
    /\ UNCHANGED <<saveVars, stVars, gsVars>>

CallParseTheme ==
    /\ thStep = "prepared"
    /\ \E onlyPalette \in BOOLEAN :
          thParsed' = [parsed |-> ParseTheme(thContent, onlyPalette),
                       onlyPalette |-> onlyPalette]
    /\ thStep' = "parsed"
    /\ UNCHANGED <<thPalette, thBackground, thZipFail, thContent>>
    /\ UNCHANGED <<saveVars, stVars, gsVars>>

ThemeNext == CallPrepareTheme \/ CallParseTheme

SpecTheme == ThemeInit /\ [][ThemeNext]_vars

(***************************************************************************)
(* SaveTheme.                                                              *)
(***************************************************************************)

\* const Data::CloudTheme &cloud of SaveTheme: a theme never saved to the
\* cloud, and themes saved by this user or by another one.
SaveThemeClouds ==
    Clouds \cup { [c EXCEPT !.slug = slug] : c \in Clouds, slug \in GoodSlugs }

\* const MTPDtheme &data: the fields of a theme as the server answers them.
ServerThemes ==
    { [id |-> i, creator |-> c, document |-> d, title |-> t, slug |-> slug] :
          i \in {7, 8}, c \in BOOLEAN, d \in {0, 9},
          t \in {"Theme", "Renamed"}, slug \in GoodSlugs }

NoServerTheme ==
    [id |-> 0, creator |-> FALSE, document |-> 0, title |-> "", slug |-> <<>>]

\* const MTPTheme &result of the done handler
ServerResults ==
    { [type |-> "theme", data |-> data, error |-> ""] : data \in ServerThemes }
        \cup { [type |-> "themeDocumentNotModified", data |-> NoServerTheme,
                error |-> ""] }

\* const RPCError &error of the fail handler
ServerFailures ==
    { [type |-> "fail", data |-> NoServerTheme, error |-> error] :
          error \in ErrorTypes }

\* CloudTheme::Parse(&window->account().session(), data): the fields of
\* the answer, the creator flag turned into the user who created the theme.
Parse(data) ==
    [id |-> data.id,
     createdBy |-> IF data.creator THEN userId ELSE 0,
     documentId |-> data.document,
     title |-> data.title,
     slug |-> data.slug]

\* Fault variant of HasCloudId: the request is never made.
HasCloudId_never(fields) == FALSE

\* if (cloud.id)
HasCloudId(fields) == fields.id # 0

\* result.match(..): the fields the done handler hands to save
DoneFields(result) ==
    IF result.type = "theme" THEN Parse(result.data) ELSE CloudTheme

\* const auto save = [=](const CloudTheme &fields) { unlock(); show(Box(..)) }
SaveThemeSave(fields) ==
    /\ stLog' = stLog \o <<"unlock", "show">>
    /\ stFields' = Append(stFields, fields)

SaveThemeInit ==
    /\ stCloud \in SaveThemeClouds
    /\ stCalled = FALSE
    /\ stRequest = FALSE
    /\ stLog = <<>>
    /\ stFields = <<>>
    /\ stResponse = <<>>
    /\ SaveIdle
    /\ ThemeIdle
    /\ SlugIdle

CallSaveTheme ==
    /\ ~stCalled
    /\ stCalled' = TRUE
    /\ IF HasCloudId(stCloud)
          THEN /\ stRequest' = TRUE
               /\ UNCHANGED <<stLog, stFields>>
          ELSE /\ SaveThemeSave(CloudTheme)
               /\ UNCHANGED stRequest
    /\ UNCHANGED <<stCloud, stResponse>>
    /\ UNCHANGED <<saveVars, themeVars, gsVars>>

GetThemeDone ==
    /\ stRequest
    /\ \E result \in ServerResults :
          /\ stResponse' = <<result>>
          /\ SaveThemeSave(DoneFields(result))
    /\ stRequest' = FALSE
    /\ UNCHANGED <<stCloud, stCalled>>
    /\ UNCHANGED <<saveVars, themeVars, gsVars>>

GetThemeFail ==
    /\ stRequest
    /\ \E error \in ServerFailures :
          /\ stResponse' = <<error>>
          /\ SaveThemeSave(CloudTheme)
    /\ stRequest' = FALSE
    /\ UNCHANGED <<stCloud, stCalled>>
    /\ UNCHANGED <<saveVars, themeVars, gsVars>>

SaveThemeNext == CallSaveTheme \/ GetThemeDone \/ GetThemeFail

SpecSaveTheme == SaveThemeInit /\ [][SaveThemeNext]_vars

(***************************************************************************)
(* GenerateSlug.                                                           *)
(***************************************************************************)

kRandomSlugSize == 16

uint8(x) == x % 256

letters == uint8(Ord.Z + 1 - Ord.A)
digits == uint8(Ord.d9 + 1 - Ord.d0)
values == uint8(2 * letters + digits)

\* Every value of rand_value<uint8>()
Uint8 == 0 .. 255

\* The bytes at both ends of each branch of the loop body, before and after
\* the reduction.
EdgeBytes ==
    {0, letters - 1, letters, 2 * letters - 1, 2 * letters,
     values - 1, values, 255}

\* The random values of one call: any byte at every position but one, and
\* an edge byte at the first or at the last position.
RandomStreams ==
    { [i \in 1..kRandomSlugSize |-> IF i = p THEN edge ELSE byte] :
          byte \in Uint8, edge \in EdgeBytes, p \in {1, kRandomSlugSize} }

\* Fault variant of RandomValue: the byte is not reduced.
RandomValue_noModulo(byte) == byte

\* const auto value = rand_value<uint8>() % values;
RandomValue(byte) == byte % values

\* The character the loop body appends for value.
SlugChar(value) ==
    IF value < letters
        THEN Ord.A + value
        ELSE IF value < 2 * letters
            THEN Ord.a + (value - letters)
            ELSE Ord.d0 + (value - 2 * letters)

SlugInit ==
    /\ gsRandom \in RandomStreams
    /\ gsI = 0
    /\ gsResult = <<>>
    /\ SaveIdle
    /\ ThemeIdle
    /\ SaveThemeIdle

\* One turn of for (auto i = 0; i != kRandomSlugSize; ++i)
GenerateSlugStep ==
    /\ gsRandom # <<>>
    /\ gsI # kRandomSlugSize
    /\ gsResult' = Append(gsResult, SlugChar(RandomValue(gsRandom[gsI + 1])))
    /\ gsI' = gsI + 1
    /\ UNCHANGED gsRandom
    /\ UNCHANGED <<saveVars, themeVars, stVars>>

SlugNext == GenerateSlugStep

SpecSlug == SlugInit /\ [][SlugNext]_vars

(***************************************************************************)
(* Claims about the archive routines (checked under SpecTheme).            *)
(***************************************************************************)
ZeroTimes == \A i \in 1..Len(thContent.entries) :
                \A j \in 1..Len(thContent.entries[i].time) :
                    thContent.entries[i].time[j] = 0

\* C5: PrepareTheme writes exactly two entries, first the background blob
\* named tiled/background with extension .png/.jpg after the tile and isPng
\* flags, then the palette blob named colors.tdesktop-theme, all entry
\* times zero, so that the result is a function of palette and background
\* alone; when any zip operation reports an error the result is empty.
C5_PrepareThemeTwoEntries ==
    thStep # "input" =>
        IF thZipFail # 0
        THEN thContent = QByteArrayEmpty
        ELSE /\ thContent.isZip
             /\ Len(thContent.entries) = 2
             /\ thContent.entries[1].name =
                    (CASE thBackground.tile /\ thBackground.isPng -> "tiled.png"
                       [] thBackground.tile /\ ~thBackground.isPng -> "tiled.jpg"
                       [] ~thBackground.tile /\ thBackground.isPng -> "background.png"
                       [] OTHER -> "background.jpg")
             /\ thContent.entries[1].content = thBackground.content
             /\ thContent.entries[2].name = "colors.tdesktop-theme"
             /\ thContent.entries[2].content = thPalette
             /\ ZeroTimes

C5_Witness ==
    /\ thStep = "prepared"
    /\ thZipFail = 0
    /\ thBackground.tile
    /\ ~thBackground.isPng
    /\ ~isEmpty(thBackground.content)
    /\ ~isEmpty(thPalette)
    /\ Len(thContent.entries) = 2

\* C10: reading back an archive written by PrepareTheme with
\* onlyPalette = false returns the palette, the (non-empty) background
\* content, isPng and tiled = tile that were packed, for all four
\* combinations of tile and isPng.
C10_RoundTrip ==
    (/\ thStep = "parsed"
     /\ ~thParsed.onlyPalette
     /\ thZipFail = 0
     /\ ~isEmpty(thBackground.content))
    => /\ thParsed.parsed.palette = thPalette
       /\ thParsed.parsed.background = thBackground.content
       /\ thParsed.parsed.isPng = thBackground.isPng
       /\ thParsed.parsed.tiled = thBackground.tile

(***************************************************************************)
(* Claims about SavePreparedTheme and SaveThemeBox (checked under Spec).   *)
(***************************************************************************)
Attempts == 1..Len(saves)

Has(seq, x) == \E i \in 1..Len(seq) : seq[i] = x

RecordKinds == {"createTheme", "updateTheme"}

\* C1: the steps of a save run in the order generate -> upload file ->
\* account.uploadTheme -> account.createTheme/updateTheme -> done: the
\* upload starts only after the generated bytes were delivered on the main
\* thread, uploadTheme is sent only after the uploader reported
\* documentReady for this save's id, the create/update request only after
\* uploadTheme succeeded, and done only after create/update succeeded.
C1_StepsInOrder ==
    \A k \in Attempts :
        LET st == saves[k]
        IN  /\ st.delivered => st.asyncs > 0
            /\ st.uploaded # <<>> => st.delivered
            /\ Has(st.sent, "uploadTheme")
                  => st.uploaded # <<>> /\ st.readyReported
            /\ (\E kind \in RecordKinds : Has(st.sent, kind))
                  => Has(st.succeeded, "uploadTheme")
            /\ st.dones > 0
                  => \E kind \in RecordKinds : Has(st.succeeded, kind)

C1_Witness ==
    \E k \in Attempts :
        /\ saves[k].sent = <<"createThemeCheck", "uploadTheme", "createTheme">>
        /\ saves[k].succeeded = saves[k].sent
        /\ saves[k].dones = 1
        /\ saves[k].readyReported
        /\ ForeignUpload \notin uploads

\* What of a call counts as a step of the save.
Steps(st) == <<st.sent, st.asyncs, st.uploaded, st.dones, st.fails>>

\* C2: once the cancel function of a call was invoked, no later step of
\* that save runs: no upload is started, no request is sent, neither done
\* nor fail is invoked; a generation result that arrives afterwards is
\* dropped.
C2_NothingAfterCancel ==
    [][\A k \in Attempts :
          saves[k].cancelled => Steps(saves'[k]) = Steps(saves[k])]_vars

\* A call cancelled while generating whose queued result was then dropped.
C2_Witness ==
    \E k \in Attempts :
        /\ saves[k].cancelled
        /\ saves[k].asyncs = 1
        /\ ~saves[k].delivered
        /\ saves[k].fails = <<>>
        /\ asyncQueue = {}
        /\ mainQueue = {}

\* The slug rule in the words of the claim: length below 5 or above 64, or
\* a character outside A-Z, a-z, 0-9 and '_'.
SlugNotGood(slug) ==
    \/ Len(slug) < 5
    \/ Len(slug) > 64
    \/ \E i \in 1..Len(slug) :
          slug[i] \notin (65..90) \cup (97..122) \cup (48..57) \cup {95}

\* The errors of the failed API requests of a call, in order, without those
\* in `except`.
FailedErrors(st, except) ==
    LET f == SelectSeq(st.failed, LAMBDA x : x \notin except)
    IN  [i \in 1..Len(f) |-> <<"Other", f[i][2]>>]

FieldCheckFileInvalid == <<"createThemeCheck", "THEME_FILE_INVALID">>

\* C3 as stated: fail gets Name for an empty title, Link for a slug that is
\* not good (the title check first), both synchronously with no request,
\* generation or upload and a null cancel function, and Other with the
\* server error type when any API request fails.
C3_Original ==
    \A k \in Attempts :
        LET st == saves[k]
        IN  IF st.fields.title = ""
            THEN /\ st.fails = <<<<"Name", "">>>>
                 /\ st.cancelFn = "nullptr"
                 /\ Steps(st) = <<<<>>, 0, <<>>, 0, st.fails>>
            ELSE IF SlugNotGood(st.fields.slug)
            THEN /\ st.fails = <<<<"Link", "">>>>
                 /\ st.cancelFn = "nullptr"
                 /\ Steps(st) = <<<<>>, 0, <<>>, 0, st.fails>>
            ELSE /\ st.fails = FailedErrors(st, {})
                 /\ st.cancelFn = "function"

\* C3 amended: as C3, except that a THEME_FILE_INVALID answer to the field
\* check request is not reported: every other failed API request is
\* reported as Other with its error type.
C3_ErrorCategories ==
    \A k \in Attempts :
        LET st == saves[k]
        IN  IF st.fields.title = ""
            THEN /\ st.fails = <<<<"Name", "">>>>
                 /\ st.cancelFn = "nullptr"
                 /\ Steps(st) = <<<<>>, 0, <<>>, 0, st.fails>>
            ELSE IF SlugNotGood(st.fields.slug)
            THEN /\ st.fails = <<<<"Link", "">>>>
                 /\ st.cancelFn = "nullptr"
                 /\ Steps(st) = <<<<>>, 0, <<>>, 0, st.fails>>
            ELSE /\ st.fails = FailedErrors(st, {FieldCheckFileInvalid})
                 /\ st.cancelFn = "function"

C3_Witness ==
    /\ Len(saves) = 2
    /\ saves[1].fails = <<<<"Link", "">>>>
    /\ Len(saves[1].fields.slug) = 5
    /\ saves[2].failed = <<FieldCheckFileInvalid, <<"uploadTheme", "FLOOD_WAIT">>>>
    /\ saves[2].fails = <<<<"Other", "FLOOD_WAIT">>>>

\* C4: after account.uploadTheme succeeds exactly one theme record request
\* is sent, never both kinds: createTheme when fields.id is 0 or the theme
\* was created by another user, updateTheme otherwise; the choice is the
\* one made when the save started.
C4_OneRecordRequest ==
    \A k \in Attempts :
        LET st == saves[k]
            records == SelectSeq(st.sent, LAMBDA x : x \in RecordKinds)
            kind == IF st.fields.id = 0 \/ st.fields.createdBy # userId
                    THEN "createTheme" ELSE "updateTheme"
        IN  /\ st.creating = (kind = "createTheme")
            /\ Len(records) <= 1
            /\ Has(st.succeeded, "uploadTheme") => records = <<kind>>
            /\ records # <<>> => Has(st.succeeded, "uploadTheme")

C4_Witness ==
    \E k \in Attempts :
        /\ saves[k].fields.id # 0
        /\ saves[k].fields.createdBy # userId
        /\ saves[k].sent = <<"createThemeCheck", "uploadTheme", "createTheme">>
        /\ Has(saves[k].succeeded, "createTheme")

IsPrefix(a, b) == Len(a) <= Len(b) /\ \A i \in 1..Len(a) : a[i] = b[i]

\* C6: a creating save first sends the createTheme field check and starts
\* the generation only after that request succeeds or fails with
\* THEME_FILE_INVALID, any other error ending the save with fail(Other,
\* error type) and nothing generated or uploaded; an updating save sends no
\* field check and starts generating at once.  So a creating save calls
\* createTheme (check), uploadTheme, createTheme in sequence and an
\* updating save uploadTheme, updateTheme.
C6_FieldCheckFirst ==
    \A k \in Attempts :
        LET st == saves[k]
            checkDone == Has(st.succeeded, "createThemeCheck")
            checkFailed == {e \in ErrorTypes :
                                Has(st.failed, <<"createThemeCheck", e>>)}
        IN  st.started =>
              IF st.creating
              THEN /\ IsPrefix(st.sent,
                        <<"createThemeCheck", "uploadTheme", "createTheme">>)
                   /\ st.sent # <<>>
                   /\ st.asyncs = IF checkDone \/ "THEME_FILE_INVALID" \in checkFailed
                                  THEN 1 ELSE 0
                   /\ \A e \in checkFailed \ {"THEME_FILE_INVALID"} :
                          /\ st.fails = <<<<"Other", e>>>>
                          /\ st.uploaded = <<>>
                          /\ st.sent = <<"createThemeCheck">>
              ELSE /\ IsPrefix(st.sent, <<"uploadTheme", "updateTheme">>)
                   /\ st.asyncs = 1

C6_Witness ==
    \E k \in Attempts :
        /\ saves[k].failed = <<FieldCheckFileInvalid>>
        /\ saves[k].sent = <<"createThemeCheck", "uploadTheme", "createTheme">>
        /\ saves[k].dones = 1

\* C7: for each call done and fail are invoked at most once together, and
\* once fail has been invoked the call sends no further request, starts no
\* generation or upload and invokes no callback.
C7_DoneXorFail ==
    /\ [](\A k \in Attempts : saves[k].dones + Len(saves[k].fails) <= 1)
    /\ [][\A k \in Attempts :
             saves[k].fails # <<>> => Steps(saves'[k]) = Steps(saves[k])]_vars

\* A call that failed at its last request while the box went on to a
\* second call that is done.
C7_Witness ==
    /\ Len(saves) = 2
    /\ saves[1].failed = <<<<"createTheme", "THEME_SLUG_OCCUPIED">>>>
    /\ saves[1].fails = <<<<"Other", "THEME_SLUG_OCCUPIED">>>>
    /\ saves[2].dones = 1

\* The field the claim says is marked for a failure.
MarkedField(type, error) ==
    IF type = "Name" \/ error = "THEME_TITLE_INVALID" THEN "name"
    ELSE IF type = "Link" \/ error \in {"THEME_SLUG_INVALID", "THEME_SLUG_OCCUPIED"}
    THEN "link"
    ELSE "none"

\* C8: the fail handler of the box clears the saving flag and hides the
\* loading indicator and marks the name field for Name or
\* THEME_TITLE_INVALID, the link field for Link, THEME_SLUG_INVALID or
\* THEME_SLUG_OCCUPIED, and no field for any other error of category Other,
\* which it shows as a toast.
C8_FailHandler ==
    [][Len(boxFails') > Len(boxFails) =>
          LET f == boxFails'[Len(boxFails')]
          IN  /\ ~saving'
              /\ ~loading'
              /\ f.showError = MarkedField(f.type, f.error)
              /\ f.showError = "none" => f.toast = <<f.error>>]_vars

C8_Witness ==
    /\ Len(boxFails) = 2
    /\ boxFails[1].error = "THEME_TITLE_INVALID"
    /\ boxFails[1].showError = "name"
    /\ boxFails[2].error = "FLOOD_WAIT"
    /\ boxFails[2].showError = "none"
    /\ ~saving
    /\ ~loading

Pos(seq, x) == CHOOSE i \in 1..Len(seq) : seq[i] = x

\* C9: finish clears the editing theme and invokes done before it applies
\* the result; the theme is applied and kept (Apply, then KeepApplied) only
\* when a preview was built from the theme bytes, and the bytes cached for
\* the cloud document and applied are the bytes this save generated and
\* uploaded.
C9_FinishAppliesUploadedBytes ==
    \A k \in Attempts :
        LET st == saves[k]
            log == st.finishLog
        IN  st.dones > 0 =>
              /\ Len(st.uploaded) = 1
              /\ IsPrefix(<<"clearEditingTheme", "done">>, log)
              /\ Has(log, "Apply") <=> st.preview = <<TRUE>>
              /\ Has(log, "Apply") =>
                    /\ Pos(log, "KeepApplied") = Pos(log, "Apply") + 1
                    /\ Pos(log, "done") < Pos(log, "Apply")
                    /\ st.applied = st.uploaded
              /\ Has(log, "KeepApplied") => Has(log, "Apply")
              /\ Has(log, "setDataAndCache") =>
                    /\ Pos(log, "done") < Pos(log, "setDataAndCache")
                    /\ st.cached = st.uploaded
              /\ st.themeContent = st.uploaded[1]

C9_Witness ==
    \E k \in Attempts :
        /\ saves[k].dones = 1
        /\ Has(saves[k].finishLog, "Apply")
        /\ Has(saves[k].finishLog, "setDataAndCache")
        /\ saves[k].cached # <<>>
        /\ saves[k].cached[1].isZip

\* What can still make call k take a step: an API request of it that is
\* not answered, a generation of it not yet run or not yet delivered, or
\* its upload in flight.
Pending(k) ==
    \/ \E r \in requests : r.attempt = k
    \/ \E task \in asyncQueue : task.attempt = k
    \/ \E cb \in mainQueue : cb.attempt = k
    \/ \E data \in uploads : data.id = saves[k].id

Finished(k) == saves[k].dones + Len(saves[k].fails) > 0

\* C11: every save that passes the title and slug checks and is not
\* cancelled eventually invokes exactly one of done or fail, whatever the
\* outcome of each API request, of the generation and of the file upload.
\* Stated on the states of a run: such a save that has invoked neither yet
\* still has something pending that will make it go on, and it never
\* invokes more than one of them.
C11_EndsWithDoneOrFail ==
    \A k \in Attempts :
        (saves[k].started /\ ~saves[k].cancelled)
            => /\ saves[k].dones + Len(saves[k].fails) <= 1
               /\ ~Finished(k) => Pending(k)

\* A call with nothing pending takes no further step, so a state in which
\* an unfinished call has nothing pending is one it never leaves.
NoStepWithoutPending ==
    [][\A k \in Attempts :
          ~Pending(k) => Steps(saves'[k]) = Steps(saves[k])]_vars

\* The calls that are in flight: started, not cancelled, neither done nor
\* failed yet.
InFlight ==
    {k \in Attempts :
        saves[k].started /\ ~saves[k].cancelled /\ ~Finished(k)}

\* C12: at most one save of the box is in flight at any time; Save pressed
\* while the saving flag is set starts nothing; the flag is cleared only by
\* the fail handler; while a save is in flight the box's cancel handle is
\* that save's cancel function, so that destroying the box cancels it and
\* nothing of it happens afterwards.
C12_OneSaveInFlight ==
    /\ [](/\ Cardinality(InFlight) <= 1
          /\ \A k \in InFlight : saving /\ cancel = k
          /\ boxState = "destroyed" => InFlight = {})
    /\ [][/\ saving => Len(saves') = Len(saves)
          /\ (saving /\ ~saving') => Len(boxFails') = Len(boxFails) + 1
          /\ boxState = "destroyed" =>
                \A k \in Attempts : Steps(saves'[k]) = Steps(saves[k])]_vars

\* A second save, started after the first one failed, was in flight when
\* the box was destroyed.
C12_Witness ==
    /\ Len(saves) = 2
    /\ saves[1].fails = <<<<"Other", "FLOOD_WAIT">>>>
    /\ saves[2].sent = <<"createThemeCheck", "uploadTheme">>
    /\ saves[2].cancelled
    /\ ~Finished(2)
    /\ boxState = "destroyed"
    /\ requests = {}

(***************************************************************************)
(* Claims about SaveTheme (checked under SpecSaveTheme).                   *)
(***************************************************************************)

Answered == stResponse # <<>>

\* C13: SaveTheme calls unlock exactly once and then shows the save box
\* exactly once on every path: within the call when cloud.id is zero, and
\* otherwise not before the account.getTheme response has arrived and as
\* soon as it has.  The box is given the server's fields only when the
\* response is a full theme; after a failure or themeDocumentNotModified it
\* is given an empty CloudTheme, with which the save creates a new theme.
C13_SaveThemeUnlockThenBox ==
    /\ stLog \in {<<>>, <<"unlock", "show">>}
    /\ Len(stFields) = (IF stLog = <<>> THEN 0 ELSE 1)
    /\ (stCalled /\ stCloud.id = 0) => (stLog # <<>> /\ ~stRequest)
    /\ (stCalled /\ stCloud.id # 0) =>
          /\ stLog # <<>> <=> Answered
          /\ stRequest <=> ~Answered
    /\ ~stCalled => (stLog = <<>> /\ ~stRequest /\ ~Answered)
    /\ stFields # <<>> =>
          IF Answered /\ stResponse[1].type = "theme"
              THEN /\ stFields[1].id = stResponse[1].data.id
                   /\ stFields[1].title = stResponse[1].data.title
                   /\ stFields[1].slug = stResponse[1].data.slug
                   /\ stFields[1].documentId = stResponse[1].data.document
                   /\ stFields[1] = Parse(stResponse[1].data)
              ELSE /\ stFields[1] = CloudTheme
                   /\ Creating(stFields[1])

\* A theme of the cloud whose request failed: the box was shown after the
\* answer, with empty fields.
C13_Witness ==
    /\ stCloud.id # 0
    /\ Answered
    /\ stResponse[1].type = "fail"
    /\ stLog = <<"unlock", "show">>
    /\ stFields = <<CloudTheme>>

(***************************************************************************)
(* Claims about GenerateSlug (checked under SpecSlug).                     *)
(***************************************************************************)

IsSlugAlnum(ch) ==
    \/ ch \in Ord.A .. Ord.Z
    \/ ch \in Ord.a .. Ord.z
    \/ ch \in Ord.d0 .. Ord.d9

\* C14: for every sequence of random bytes GenerateSlug returns exactly
\* kRandomSlugSize characters, each in A-Z, a-z or 0-9, the byte reduced
\* modulo 62 picking the character within these three ranges, and
\* IsGoodSlug accepts the result.
C14_GeneratedSlugIsGood ==
    /\ Len(gsResult) = gsI
    /\ gsI <= kRandomSlugSize
    /\ \A i \in 1..Len(gsResult) :
          /\ IsSlugAlnum(gsResult[i])
          /\ LET value == gsRandom[i] % 62
             IN  gsResult[i] = IF value < 26 THEN Ord.A + value
                               ELSE IF value < 52 THEN Ord.a + value - 26
                               ELSE Ord.d0 + value - 52
    /\ gsI = kRandomSlugSize =>
          /\ Len(gsResult) = 16
          /\ IsGoodSlug(gsResult)

\* A finished call whose first byte is the last one of the digits branch
\* and whose last byte is above the modulus.
C14_Witness ==
    /\ gsI = kRandomSlugSize
    /\ gsRandom[1] = values - 1
    /\ gsRandom[kRandomSlugSize] = 255
    /\ gsResult[1] = Ord.d9
    /\ gsResult[kRandomSlugSize] = Ord.A + 7

====
